---- MODULE Spec2Model ----
(***************************************************************************)
(* Bankify: the Bank/Account ledger of bank_management.py and the Tk       *)
(* handlers of gui_main.py that drive it.                                  *)
(*                                                                         *)
(* Amounts and balances are Python floats (the GUI parses every amount     *)
(* with float()).  A float is modelled as a record                         *)
(*      [k |-> "num", h |-> h, l |-> l]   the double  h * 2^53 + l         *)
(*      [k |-> "inf", h |-> s, l |-> 0]   s = 1: +inf,  s = -1: -inf       *)
(*      [k |-> "nan", h |-> 0, l |-> 0]   not-a-number                     *)
(* with |l| far below 2^52, so that (h, l) is unique.  Doubles below 2^53  *)
(* hold every integer; doubles in [2^53, 2^54) hold the even ones only.    *)
(***************************************************************************)
EXTENDS Integers, FiniteSets, Sequences, TLC

\* ------------------------------------------------------------- bounds

\* Largest |l| an entered amount or a stored balance has.
MaxLo == 2

\* How many numbers the account-number range holds (the program's range
\* 1000000000..9999999999 holds 9000000000).
RangeSize == 2

\* The binades modelled: h = 0 is [0, 2^53), h = 1 is around 2^53.
Binades == {0, 1}

\* ------------------------------------------------------------- floats

Num(h, l) == [k |-> "num", h |-> h, l |-> l]
PosInf == [k |-> "inf", h |-> 1, l |-> 0]
NegInf == [k |-> "inf", h |-> -1, l |-> 0]
NaN == [k |-> "nan", h |-> 0, l |-> 0]
Zero == Num(0, 0)

IsNum(x) == x.k = "num"
IsNaN(x) == x.k = "nan"

\* The doubles of the modelled binades: every integer below 2^53, the even
\* integers from 2^53 on.
Representable(x) ==
    \/ x.k \in {"inf", "nan"}
    \/ /\ x.k = "num"
       /\ x.h \in Binades
       /\ (x.h = 1 /\ x.l > 0) => x.l % 2 = 0

\* Python's a < b on floats: false as soon as one side is nan.
FLt(a, b) ==
    /\ ~IsNaN(a)
    /\ ~IsNaN(b)
    /\ CASE a.k = "inf" /\ b.k = "inf" -> a.h < b.h
         [] a.k = "inf" -> a.h = -1
         [] b.k = "inf" -> b.h = 1
         [] OTHER -> a.h < b.h \/ (a.h = b.h /\ a.l < b.l)

\* Python's a <= b on floats: false as soon as one side is nan.
FLe(a, b) == ~IsNaN(a) /\ ~IsNaN(b) /\ ~FLt(b, a)

\* Python's a > b on floats.
FGt(a, b) == FLt(b, a)

\* Round-to-nearest, ties-to-even, of the real number h * 2^53 + l.
Round(h, l) ==
    IF h = 1 /\ l > 0 /\ l % 2 = 1
    THEN Num(h, IF (l + 1) % 4 = 0 THEN l + 1 ELSE l - 1)
    ELSE Num(h, l)

\* Python's a + b on floats.
FAdd(a, b) ==
    CASE IsNaN(a) \/ IsNaN(b) -> NaN
      [] a.k = "inf" /\ b.k = "inf" -> IF a.h = b.h THEN a ELSE NaN
      [] a.k = "inf" -> a
      [] b.k = "inf" -> b
      [] OTHER -> Round(a.h + b.h, a.l + b.l)

\* Python's -a on floats.
FNeg(a) == [k |-> a.k, h |-> -a.h, l |-> -a.l]

\* Python's a - b on floats.
FSub(a, b) == FAdd(a, FNeg(b))

\* A float the model keeps: inside the modelled binades and offsets.
InModel(x) ==
    /\ Representable(x)
    /\ IsNum(x) => (x.l >= -MaxLo /\ x.l <= MaxLo)

\* ------------------------------------------------------ program state

\* random.randint(1000000000, 9999999999): the range's first number.
MinAccountNumber == 1000000000

\* The range's last number, with the range scaled down to RangeSize numbers.
MaxAccountNumber == MinAccountNumber + RangeSize - 1

AccountNumberRange == MinAccountNumber .. MaxAccountNumber

\* The holder name and account type a caller passes; "" is an empty entry.
Holders == {<<"Alice", "Savings">>, <<"Bob", "Checking">>}

\* What the name and type entries of the create page may hold as well.
HolderEntries == Holders \cup {<<"", "Savings">>, <<"Alice", "">>}

\* The amounts a caller passes: small integers of either sign, 2^53, the
\* infinities and nan (float() parses "inf" and "nan").
Amounts ==
    {Num(0, l) : l \in -1 .. MaxLo} \cup {Num(1, 0), PosInf, NegInf, NaN}

\* The account numbers a caller passes: the range and a number outside it.
Numbers == AccountNumberRange \cup {MinAccountNumber - 1}

\* The text of an entry widget: one that int()/float() parses to val, or one
\* that raises ValueError.
Malformed(v) == [ok |-> FALSE, val |-> v]
Parsed(v) == [ok |-> TRUE, val |-> v]
NumberEntries == {Parsed(n) : n \in Numbers} \cup {Malformed(0)}
AmountEntries == {Parsed(a) : a \in Amounts} \cup {Malformed(Zero)}

VARIABLES
    accounts,   \* Bank.accounts: account number -> Account
    pc,         \* "idle": waiting for a call; "generate", "confirm": inside
                \* one; "done": a call has returned and shows its outcome
    pend,       \* the running call's locals
    out,        \* what the call that has just returned gave back, printed
                \* and showed; NoOutcome otherwise
    hist        \* history of the number MinAccountNumber, for the claims
                \* about a number closed earlier: "off" (not recorded),
                \* "open" (recorded, never closed) or the holder name of the
                \* account close_account last removed under that number

vars == <<accounts, pc, pend, out, hist>>

\* Python's None.
None == [none |-> TRUE]

NoPend == [caller |-> "-", name |-> "", account_type |-> "",
           initial_deposit |-> Zero, acc_num |-> 0]

\* The outcome of a completed call: its arguments, the balance it found,
\* the value the Bank/Account method returned, the line it printed, the
\* dialog the GUI showed and the accounts it listed, in the order listed.
Outcome(op, n, amount, found, before, ret, console, dialog) ==
    [op |-> op, n |-> n, amount |-> amount, found |-> found,
     before |-> before, ret |-> ret, console |-> console, dialog |-> dialog,
     listed |-> <<>>]

NoOutcome == Outcome("-", 0, Zero, FALSE, Zero, "-", "-", "-")

\* The record of history, part of every step: a close_account that returns
\* True for MinAccountNumber leaves the name of the account it removed.
History ==
    hist' = IF /\ hist # "off"
               /\ pc' = "done"
               /\ out'.op \in {"close_account", "on_close"}
               /\ out'.ret = "True"
               /\ out'.n = MinAccountNumber
               /\ MinAccountNumber \in DOMAIN accounts
            THEN accounts[MinAccountNumber].name
            ELSE hist

\* Account.__init__ with the name and the type assigned crosswise.
AccountSwapped(account_number, name, account_type, balance) ==
    [account_number |-> account_number, name |-> account_type,
     account_type |-> name, balance |-> balance]

\* Account.__init__
Account(account_number, name, account_type, balance) ==
    [account_number |-> account_number, name |-> name,
     account_type |-> account_type, balance |-> balance]

\* Bank.__init__: no accounts.
Init ==
    /\ accounts = [m \in {} |-> None]
    /\ pc = "idle"
    /\ pend = NoPend
    /\ out = NoOutcome
    /\ hist = "off"

\* ------------------------------------------------------------ Account

\* Account.deposit building the account anew with the type 'Savings'
\* instead of adding to self.balance.
deposit_rebuild(self, amount) ==
    IF FGt(amount, Zero)
    THEN [account |-> Account(self.account_number, self.name, "Savings",
                              FAdd(self.balance, amount)),
          ret |-> TRUE, console |-> "deposited"]
    ELSE [account |-> self, ret |-> FALSE, console |-> "invalid_deposit"]

\* Account.deposit: the account afterwards, the value returned, the line
\* printed.
deposit(self, amount) ==
    IF FGt(amount, Zero)
    THEN [account |-> [self EXCEPT !.balance = FAdd(self.balance, amount)],
          ret |-> TRUE, console |-> "deposited"]
    ELSE [account |-> self, ret |-> FALSE, console |-> "invalid_deposit"]

\* Account.withdraw without the comparison with the balance.
withdraw_unchecked(self, amount) ==
    IF FLt(Zero, amount)
    THEN [account |-> [self EXCEPT !.balance = FSub(self.balance, amount)],
          ret |-> TRUE, console |-> "withdrew"]
    ELSE [account |-> self, ret |-> FALSE, console |-> "invalid_withdrawal"]

\* Account.withdraw without the test that the amount is positive.
withdraw_unsigned(self, amount) ==
    IF FLe(amount, self.balance)
    THEN [account |-> [self EXCEPT !.balance = FSub(self.balance, amount)],
          ret |-> TRUE, console |-> "withdrew"]
    ELSE IF FGt(amount, self.balance)
    THEN [account |-> self, ret |-> FALSE, console |-> "insufficient"]
    ELSE [account |-> self, ret |-> FALSE, console |-> "invalid_withdrawal"]

\* Account.withdraw
withdraw(self, amount) ==
    IF FLt(Zero, amount) /\ FLe(amount, self.balance)
    THEN [account |-> [self EXCEPT !.balance = FSub(self.balance, amount)],
          ret |-> TRUE, console |-> "withdrew"]
    ELSE IF FGt(amount, self.balance)
    THEN [account |-> self, ret |-> FALSE, console |-> "insufficient"]
    ELSE [account |-> self, ret |-> FALSE, console |-> "invalid_withdrawal"]

\* Account.get_balance
get_balance(self) == self.balance

\* --------------------------------------------------------------- Bank

\* Bank.find_account making up an empty account for a number it does not
\* hold (a defaultdict lookup for dict.get).
find_account_default(self, account_number) ==
    IF account_number \in DOMAIN self
    THEN self[account_number]
    ELSE [account_number |-> account_number, name |-> "",
          account_type |-> "", balance |-> Zero]

\* Bank.find_account: dict.get
find_account(self, account_number) ==
    IF account_number \in DOMAIN self
    THEN self[account_number]
    ELSE None

\* The mapping with key n bound to account a (self.accounts[n] = a).
Store(n, a) ==
    [m \in DOMAIN accounts \cup {n} |-> IF m = n THEN a ELSE accounts[m]]

\* The mapping without key n (del self.accounts[n]).
Delete(n) == [m \in DOMAIN accounts \ {n} |-> accounts[m]]

\* Bank.create_account without the test of the initial deposit.
create_account_unchecked(caller, name, account_type, initial_deposit) ==
    /\ pc' = "generate"
    /\ pend' = [NoPend EXCEPT !.caller = caller, !.name = name,
                              !.account_type = account_type,
                              !.initial_deposit = initial_deposit]
    /\ UNCHANGED <<accounts, out>>

\* Bank.create_account up to the call of _generate_account_number: a
\* negative deposit returns None, anything else goes on to draw a number.
create_account(caller, name, account_type, initial_deposit) ==
    IF FLt(initial_deposit, Zero)
    THEN /\ out' = Outcome(caller, 0, initial_deposit, FALSE, Zero, "None",
                           "negative_initial",
                           IF caller = "on_create" THEN "NegativeInitial"
                           ELSE "-")
         /\ pc' = "done"
         /\ UNCHANGED <<accounts, pend>>
    ELSE /\ pc' = "generate"
         /\ pend' = [NoPend EXCEPT !.caller = caller, !.name = name,
                                   !.account_type = account_type,
                                   !.initial_deposit = initial_deposit]
         /\ UNCHANGED <<accounts, out>>

\* Bank._generate_account_number returning the first number it draws.
generate_account_number_any ==
    /\ pc = "generate"
    /\ \E account_number \in AccountNumberRange :
          /\ accounts' = Store(account_number,
                               Account(account_number, pend.name,
                                       pend.account_type,
                                       pend.initial_deposit))
          /\ out' = Outcome(pend.caller, account_number,
                            pend.initial_deposit, FALSE, Zero,
                            "Account", "created",
                            IF pend.caller = "on_create" THEN "Created"
                            ELSE "-")
          /\ pc' = "done"
          /\ pend' = NoPend
    /\ History

\* Bank._generate_account_number drawing from a range that starts one
\* number too low (randint(999999999, 9999999999)).
generate_account_number_wide ==
    /\ pc = "generate"
    /\ \E account_number \in Numbers :
          IF account_number \notin DOMAIN accounts
          THEN /\ accounts' = Store(account_number,
                                    Account(account_number, pend.name,
                                            pend.account_type,
                                            pend.initial_deposit))
               /\ out' = Outcome(pend.caller, account_number,
                                 pend.initial_deposit, FALSE, Zero,
                                 "Account", "created",
                                 IF pend.caller = "on_create" THEN "Created"
                                 ELSE "-")
               /\ pc' = "done"
               /\ pend' = NoPend
          ELSE UNCHANGED vars
    /\ History

\* Bank._generate_account_number drawing the same number at every turn
\* (randint(1000000000, 1000000000)).
generate_account_number_stuck ==
    /\ pc = "generate"
    /\ \E account_number \in {MinAccountNumber} :
          IF account_number \notin DOMAIN accounts
          THEN /\ accounts' = Store(account_number,
                                    Account(account_number, pend.name,
                                            pend.account_type,
                                            pend.initial_deposit))
               /\ out' = Outcome(pend.caller, account_number,
                                 pend.initial_deposit, FALSE, Zero,
                                 "Account", "created",
                                 IF pend.caller = "on_create" THEN "Created"
                                 ELSE "-")
               /\ pc' = "done"
               /\ pend' = NoPend
          ELSE UNCHANGED vars
    /\ History

\* Bank.create_account giving a number closed earlier back with the holder
\* name of the account that was closed (the old Account object taken up
\* again).
generate_account_number_recycle ==
    /\ pc = "generate"
    /\ \E account_number \in AccountNumberRange :
          IF account_number \notin DOMAIN accounts
          THEN /\ accounts' = Store(account_number,
                                    Account(account_number,
                                            IF /\ account_number = MinAccountNumber
                                               /\ hist \notin {"off", "open"}
                                            THEN hist ELSE pend.name,
                                            pend.account_type,
                                            pend.initial_deposit))
               /\ out' = Outcome(pend.caller, account_number,
                                 pend.initial_deposit, FALSE, Zero,
                                 "Account", "created",
                                 IF pend.caller = "on_create" THEN "Created"
                                 ELSE "-")
               /\ pc' = "done"
               /\ pend' = NoPend
          ELSE UNCHANGED vars
    /\ History

\* One turn of the loop of Bank._generate_account_number, and, once it
\* returns, the rest of create_account and of the handler that called it.
generate_account_number ==
    /\ pc = "generate"
    /\ \E account_number \in AccountNumberRange :
          IF account_number \notin DOMAIN accounts
          THEN /\ accounts' = Store(account_number,
                                    Account(account_number, pend.name,
                                            pend.account_type,
                                            pend.initial_deposit))
               /\ out' = Outcome(pend.caller, account_number,
                                 pend.initial_deposit, FALSE, Zero,
                                 "Account", "created",
                                 IF pend.caller = "on_create" THEN "Created"
                                 ELSE "-")
               /\ pc' = "done"
               /\ pend' = NoPend
          ELSE UNCHANGED vars
    /\ History

\* Bank.close_account emptying the mapping (clear() for del).
close_account_clear(caller, account_number) ==
    IF account_number \in DOMAIN accounts
    THEN /\ accounts' = [m \in {} |-> None]
         /\ out' = Outcome(caller, account_number, Zero, TRUE,
                           accounts[account_number].balance, "True",
                           "closed",
                           IF caller = "on_close" THEN "Closed" ELSE "-")
    ELSE /\ accounts' = accounts
         /\ out' = Outcome(caller, account_number, Zero, FALSE, Zero,
                           "False", "not_found",
                           IF caller = "on_close" THEN "AccountNotFound"
                           ELSE "-")

\* Bank.close_account reporting success for a number it does not hold
\* (pop(account_number, None) for the test and the del).
close_account_pop(caller, account_number) ==
    /\ accounts' = Delete(account_number)
    /\ out' = Outcome(caller, account_number, Zero,
                      account_number \in DOMAIN accounts,
                      IF account_number \in DOMAIN accounts
                      THEN accounts[account_number].balance ELSE Zero,
                      "True", "closed",
                      IF caller = "on_close" THEN "Closed" ELSE "-")

\* Bank.close_account
close_account(caller, account_number) ==
    IF account_number \in DOMAIN accounts
    THEN /\ accounts' = Delete(account_number)
         /\ out' = Outcome(caller, account_number, Zero, TRUE,
                           accounts[account_number].balance, "True",
                           "closed",
                           IF caller = "on_close" THEN "Closed" ELSE "-")
    ELSE /\ accounts' = accounts
         /\ out' = Outcome(caller, account_number, Zero, FALSE, Zero,
                           "False", "not_found",
                           IF caller = "on_close" THEN "AccountNotFound"
                           ELSE "-")

\* dict.values() with the last account left out (a loop that stops one
\* short).
values_short(self) ==
    {[i \in 1 .. (Cardinality(DOMAIN self) - 1) |-> self[order[i]]] :
        order \in {o \in [1 .. Cardinality(DOMAIN self) -> DOMAIN self] :
                      \A i, j \in DOMAIN o : o[i] = o[j] => i = j}}

\* The sequences a loop over dict.values() / dict.items() may visit: every
\* account once.  A dict keeps insertion order, which the mapping here does
\* not record, so any order stands for it.
values(self) ==
    {[i \in 1 .. Cardinality(DOMAIN self) |-> self[order[i]]] :
        order \in {o \in [1 .. Cardinality(DOMAIN self) -> DOMAIN self] :
                      \A i, j \in DOMAIN o : o[i] = o[j] => i = j}}

\* Bank.list_all_accounts: the header line it prints and the accounts it
\* prints after it.
list_all_accounts(self) ==
    IF DOMAIN self = {}
    THEN {[console |-> "no_accounts", listed |-> <<>>]}
    ELSE {[console |-> "all_accounts", listed |-> v] : v \in values(self)}

\* A client other than the GUI calls Bank.list_all_accounts.
call_list_all_accounts ==
    /\ pc = "idle"
    /\ \E r \in list_all_accounts(accounts) :
          out' = [Outcome("list_all_accounts", 0, Zero, FALSE, Zero, "None",
                          r.console, "-") EXCEPT !.listed = r.listed]
    /\ pc' = "done"
    /\ UNCHANGED <<accounts, pend>>
    /\ History

\* A client other than the GUI calls Bank.create_account.
call_create_account ==
    /\ pc = "idle"
    /\ \E holder \in Holders, initial_deposit \in Amounts :
          create_account("create_account", holder[1], holder[2],
                         initial_deposit)
    /\ History

\* Bank.close_account called while the askyesno dialog of on_close is
\* still open (a dialog that is not modal), the dialog staying open.
call_close_account_reentrant ==
    /\ pc \in {"idle", "confirm"}
    /\ \E account_number \in Numbers :
          close_account("close_account", account_number)
    /\ pc' = IF pc = "confirm" THEN "confirm" ELSE "done"
    /\ UNCHANGED pend
    /\ History

\* A client other than the GUI calls Bank.close_account.
call_close_account ==
    /\ pc = "idle"
    /\ \E account_number \in Numbers :
          close_account("close_account", account_number)
    /\ pc' = "done"
    /\ UNCHANGED pend
    /\ History

\* ---------------------------------------------------------------- GUI

\* A handler that ends in its except ValueError clause, or that shows a
\* dialog and returns, the bank untouched.
Shows(op, n, amount, dialog) ==
    /\ out' = Outcome(op, n, amount, FALSE, Zero, "-", "-", dialog)
    /\ pc' = "done"
    /\ UNCHANGED <<accounts, pend>>

\* CreateAccountPage.on_create
on_create ==
    /\ pc = "idle"
    /\ \E holder \in HolderEntries, entry \in AmountEntries :
          IF ~entry.ok
          THEN Shows("on_create", 0, Zero, "InvalidInput")
          ELSE IF holder[1] = "" \/ holder[2] = ""
          THEN Shows("on_create", 0, entry.val, "EmptyFields")
          ELSE create_account("on_create", holder[1], holder[2], entry.val)
    /\ History

\* DepositPage.on_deposit.  int() of the number entry runs before float() of
\* the amount entry: when only the latter raises, acc_num holds the number.
on_deposit ==
    /\ pc = "idle"
    /\ \E acc_num \in NumberEntries, amount \in AmountEntries :
          IF ~acc_num.ok \/ ~amount.ok
          THEN Shows("on_deposit", acc_num.val, Zero, "InvalidInput")
          ELSE IF find_account(accounts, acc_num.val) = None
          THEN Shows("on_deposit", acc_num.val, amount.val, "AccountNotFound")
          ELSE LET account == find_account(accounts, acc_num.val)
                   r == deposit(account, amount.val)
               IN  /\ InModel(r.account.balance)
                   /\ accounts' = Store(acc_num.val, r.account)
                   /\ out' = Outcome("on_deposit", acc_num.val, amount.val,
                                     TRUE, account.balance,
                                     IF r.ret THEN "True" ELSE "False",
                                     r.console,
                                     IF r.ret THEN "Deposited"
                                     ELSE "InvalidDeposit")
                   /\ pc' = "done"
                   /\ UNCHANGED pend
    /\ History

\* WithdrawPage.on_withdraw, its entries parsed as in on_deposit.
on_withdraw ==
    /\ pc = "idle"
    /\ \E acc_num \in NumberEntries, amount \in AmountEntries :
          IF ~acc_num.ok \/ ~amount.ok
          THEN Shows("on_withdraw", acc_num.val, Zero, "InvalidInput")
          ELSE IF find_account(accounts, acc_num.val) = None
          THEN Shows("on_withdraw", acc_num.val, amount.val, "AccountNotFound")
          ELSE LET account == find_account(accounts, acc_num.val)
                   r == withdraw(account, amount.val)
               IN  /\ InModel(r.account.balance)
                   /\ accounts' = Store(acc_num.val, r.account)
                   /\ out' = Outcome("on_withdraw", acc_num.val, amount.val,
                                     TRUE, account.balance,
                                     IF r.ret THEN "True" ELSE "False",
                                     r.console,
                                     IF r.ret THEN "Withdrew"
                                     ELSE IF FLe(amount.val, Zero)
                                     THEN "InvalidWithdrawal"
                                     ELSE "InsufficientFunds")
                   /\ pc' = "done"
                   /\ UNCHANGED pend
    /\ History

\* BalancePage.on_check
on_check ==
    /\ pc = "idle"
    /\ \E acc_num \in NumberEntries :
          IF ~acc_num.ok
          THEN Shows("on_check", 0, Zero, "InvalidInput")
          ELSE IF find_account(accounts, acc_num.val) = None
          THEN Shows("on_check", acc_num.val, Zero, "AccountNotFound")
          ELSE /\ out' = Outcome("on_check", acc_num.val, Zero, TRUE,
                                 get_balance(find_account(accounts, acc_num.val)),
                                 "-", "-", "Balance")
               /\ pc' = "done"
               /\ UNCHANGED <<accounts, pend>>
    /\ History

\* DetailsPage.on_details
on_details ==
    /\ pc = "idle"
    /\ \E acc_num \in NumberEntries :
          IF ~acc_num.ok
          THEN Shows("on_details", 0, Zero, "InvalidInput")
          ELSE IF find_account(accounts, acc_num.val) = None
          THEN Shows("on_details", acc_num.val, Zero, "AccountNotFound")
          ELSE /\ out' = Outcome("on_details", acc_num.val, Zero, TRUE,
                                 find_account(accounts, acc_num.val).balance,
                                 "-", "-", "Details")
               /\ pc' = "done"
               /\ UNCHANGED <<accounts, pend>>
    /\ History

\* AllAccountsPage.on_show: the text area refilled from bank.accounts.
on_show ==
    /\ pc = "idle"
    /\ LET all_accounts == accounts
       IN  IF DOMAIN all_accounts = {}
           THEN out' = Outcome("on_show", 0, Zero, FALSE, Zero, "-", "-",
                               "NoAccounts")
           ELSE \E v \in values(all_accounts) :
                   out' = [Outcome("on_show", 0, Zero, FALSE, Zero, "-", "-",
                                   "AllAccounts") EXCEPT !.listed = v]
    /\ pc' = "done"
    /\ UNCHANGED <<accounts, pend>>
    /\ History

\* CloseAccountPage.on_close up to the askyesno dialog.
on_close ==
    /\ pc = "idle"
    /\ \E acc_num \in NumberEntries :
          IF ~acc_num.ok
          THEN Shows("on_close", 0, Zero, "InvalidInput")
          ELSE IF find_account(accounts, acc_num.val) = None
          THEN Shows("on_close", acc_num.val, Zero, "AccountNotFound")
          ELSE /\ pc' = "confirm"
               /\ pend' = [NoPend EXCEPT !.caller = "on_close",
                                         !.acc_num = acc_num.val]
               /\ UNCHANGED <<accounts, out>>
    /\ History

\* CloseAccountPage.on_close from the answer to the askyesno dialog on.  The
\* dialog is modal: no other handler runs while it is open.
askyesno ==
    /\ pc = "confirm"
    /\ \E confirm \in BOOLEAN :
          IF confirm
          THEN close_account("on_close", pend.acc_num)
          ELSE /\ out' = Outcome("on_close", pend.acc_num, Zero, TRUE,
                                 accounts[pend.acc_num].balance, "-", "-",
                                 "-")
               /\ accounts' = accounts
    /\ pc' = "done"
    /\ pend' = NoPend
    /\ History

\* The call has returned and its dialog is dismissed: BankApp.mainloop waits
\* for the next event.
mainloop ==
    /\ pc = "done"
    /\ pc' = "idle"
    /\ out' = NoOutcome
    /\ UNCHANGED <<accounts, pend>>
    /\ History

Next ==
    \/ mainloop
    \/ call_create_account
    \/ call_close_account
    \/ call_list_all_accounts
    \/ generate_account_number
    \/ on_create
    \/ on_deposit
    \/ on_withdraw
    \/ on_check
    \/ on_details
    \/ on_show
    \/ on_close
    \/ askyesno

Spec == Init /\ [][Next]_vars

\* The program with the history of MinAccountNumber recorded from the
\* start.
HistInit ==
    /\ accounts = [m \in {} |-> None]
    /\ pc = "idle"
    /\ pend = NoPend
    /\ out = NoOutcome
    /\ hist = "open"

HistSpec == HistInit /\ [][Next]_vars

\* The turn of the loop of Bank._generate_account_number that draws a free
\* number and returns it.
generate_returns == generate_account_number /\ pc' = "done"

\* The program with a fair random.randint: while the loop runs and a free
\* number exists, a free number is drawn in the end.
FairSpec == Spec /\ WF_vars(generate_returns)

\* ------------------------------------------------------------- claims

\* The real number a - b, and a + b, of two floats that are numbers or
\* infinities, with no rounding: what "exactly" asks for.
ExactSub(a, b) ==
    CASE a.k = "inf" /\ b.k = "inf" -> Zero
      [] a.k = "inf" -> a
      [] b.k = "inf" -> FNeg(b)
      [] OTHER -> Num(a.h - b.h, a.l - b.l)

ExactAdd(a, b) ==
    CASE a.k = "inf" -> a
      [] b.k = "inf" -> b
      [] OTHER -> Num(a.h + b.h, a.l + b.l)

\* Every balance of the ledger acc is >= 0.
NonNegative(acc) == \A n \in DOMAIN acc : FLe(Zero, acc[n].balance)

\* The call that has just returned is Account.withdraw / Account.deposit on
\* an account the ledger holds.
Withdrew == pc = "done" /\ out.op = "on_withdraw" /\ out.found
Deposited == pc = "done" /\ out.op = "on_deposit" /\ out.found

\* C1: every account of the ledger has balance >= 0 in every reachable
\* state: the ledger starts empty and no call given a positive, zero or
\* negative amount takes non-negative balances to a balance that is not.
C1_BalanceNonNegative ==
    [][(NonNegative(accounts) /\ ~IsNaN(out'.amount))
          => NonNegative(accounts')]_vars

\* C2: a withdrawal of more than the balance leaves the balance as it was
\* and reports insufficient funds, not an invalid amount.
C2_WithdrawInsufficient ==
    (Withdrew /\ FGt(out.amount, out.before))
       => /\ accounts[out.n].balance = out.before
          /\ out.ret = "False"
          /\ out.console = "insufficient"
          /\ out.dialog = "InsufficientFunds"

C2_Witness ==
    /\ Withdrew
    /\ out.amount = Num(0, 2)
    /\ out.before = Num(0, 1)
    /\ out.console = "insufficient"

\* C3: a withdrawal of zero or less leaves the balance as it was and
\* reports an invalid amount, whatever the balance.
C3_WithdrawInvalid ==
    (Withdrew /\ FLe(out.amount, Zero))
       => /\ accounts[out.n].balance = out.before
          /\ out.ret = "False"
          /\ out.console = "invalid_withdrawal"
          /\ out.dialog = "InvalidWithdrawal"

C3_Witness ==
    /\ Withdrew
    /\ out.amount = Num(0, -1)
    /\ out.before = Zero
    /\ out.console = "invalid_withdrawal"

\* C4: a withdrawal of a, 0 < a <= balance, succeeds and leaves the balance
\* minus exactly a; a withdrawal of the whole balance leaves 0.
C4_WithdrawExact ==
    (Withdrew /\ FLt(Zero, out.amount) /\ FLe(out.amount, out.before))
       => /\ out.ret = "True"
          /\ accounts[out.n].balance = ExactSub(out.before, out.amount)
          /\ out.amount = out.before => accounts[out.n].balance = Zero

\* C5: a deposit of a > 0 succeeds and leaves the balance plus exactly a; a
\* deposit of a <= 0 fails and leaves the balance as it was.
C5_DepositExact ==
    (Deposited /\ ~IsNaN(out.before))
       => /\ FGt(out.amount, Zero)
             => /\ out.ret = "True"
                /\ accounts[out.n].balance = ExactAdd(out.before, out.amount)
          /\ FLe(out.amount, Zero)
             => /\ out.ret = "False"
                /\ accounts[out.n].balance = out.before

CreateOps == {"create_account", "on_create"}
CloseOps == {"close_account", "on_close"}

\* C6: create_account with a deposit >= 0 (0 included) is not refused, and
\* when it returns it has added exactly one account, under a number that
\* was no key before, with the deposit as its balance, every earlier
\* account still there as it was.
C6_CreateAddsOne ==
    [][/\ (pc = "generate" /\ pc' = "done" /\ FLe(Zero, pend.initial_deposit))
          => /\ out'.ret = "Account"
             /\ out'.n \notin DOMAIN accounts
             /\ DOMAIN accounts' = DOMAIN accounts \cup {out'.n}
             /\ accounts'[out'.n].balance = pend.initial_deposit
             /\ \A m \in DOMAIN accounts : accounts'[m] = accounts[m]
       /\ (pc' = "done" /\ out'.op \in CreateOps /\ out'.ret = "None")
          => ~FLe(Zero, out'.amount)]_vars

C6_Witness ==
    /\ pc = "done"
    /\ out.op = "create_account"
    /\ out.ret = "Account"
    /\ out.amount = Zero
    /\ Cardinality(DOMAIN accounts) = 2

\* C7: create_account with a negative deposit returns None, draws no number
\* and leaves the ledger as it was.
C7_CreateNegative ==
    [][/\ (pc' = "done" /\ out'.op \in CreateOps /\ out'.ret # "-"
              /\ FLt(out'.amount, Zero))
          => /\ out'.ret = "None"
             /\ accounts' = accounts
       /\ pc' = "generate" => ~FLt(pend'.initial_deposit, Zero)]_vars

C7_Witness ==
    /\ pc = "done"
    /\ out.op = "on_create"
    /\ out.ret = "None"
    /\ out.amount = Num(0, -1)
    /\ DOMAIN accounts # {}

\* C8: close_account on a number the ledger holds returns True and removes
\* that account and no other; find_account on the number then gives None.
C8_ClosePresent ==
    [][(pc' = "done" /\ out'.op \in CloseOps /\ out'.ret # "-"
           /\ out'.n \in DOMAIN accounts)
          => /\ out'.ret = "True"
             /\ DOMAIN accounts' = DOMAIN accounts \ {out'.n}
             /\ \A m \in DOMAIN accounts' : accounts'[m] = accounts[m]
             /\ find_account(accounts', out'.n) = None]_vars

C8_Witness ==
    /\ pc = "done"
    /\ out.op = "on_close"
    /\ out.ret = "True"
    /\ DOMAIN accounts # {}
    /\ find_account(accounts, out.n) = None

\* C9: close_account on a number the ledger does not hold returns False,
\* prints that the account was not found and leaves the ledger as it was
\* (so a second close of the same number fails).
C9_CloseAbsent ==
    [][(pc' = "done" /\ out'.op \in CloseOps /\ out'.ret # "-"
           /\ out'.n \notin DOMAIN accounts)
          => /\ out'.ret = "False"
             /\ out'.console = "not_found"
             /\ accounts' = accounts]_vars

C9_Witness ==
    /\ pc = "done"
    /\ out.op = "close_account"
    /\ out.ret = "False"
    /\ out.n \in AccountNumberRange
    /\ DOMAIN accounts # {}

\* C10: find_account on the number a create_account call returned gives an
\* account with the name, the type and the deposit the call was given.
C10_CreateFindRoundTrip ==
    [][(pc = "generate" /\ pc' = "done")
          => LET found == find_account(accounts', out'.n)
             IN  /\ found # None
                 /\ found.name = pend.name
                 /\ found.account_type = pend.account_type
                 /\ found.balance = pend.initial_deposit]_vars

C10_Witness ==
    /\ pc = "done"
    /\ out.op = "on_create"
    /\ out.ret = "Account"
    /\ find_account(accounts, out.n) # None
    /\ find_account(accounts, out.n).name = "Bob"
    /\ find_account(accounts, out.n).account_type = "Checking"
    /\ find_account(accounts, out.n).balance = Num(0, 2)

\* C11: every key of the mapping is the account_number of the account
\* stored under it and lies in the range the numbers are drawn from, and no
\* two accounts of the ledger have the same account number.
C11_KeysAreNumbers ==
    /\ \A n \in DOMAIN accounts :
          /\ accounts[n].account_number = n
          /\ n \in AccountNumberRange
    /\ \A m, n \in DOMAIN accounts :
          accounts[m].account_number = accounts[n].account_number => m = n

C11_Witness ==
    /\ pc = "done"
    /\ out.ret = "Account"
    /\ Cardinality(DOMAIN accounts) = 2

\* C12: an account of the ledger stays in it, with its number, holder name
\* and type, through every step but a close_account of its own number that
\* returns True.
C12_OnlyCloseRemoves ==
    [][\A n \in DOMAIN accounts :
          \/ /\ n \in DOMAIN accounts'
             /\ accounts'[n].account_number = accounts[n].account_number
             /\ accounts'[n].name = accounts[n].name
             /\ accounts'[n].account_type = accounts[n].account_type
          \/ /\ pc' = "done"
             /\ out'.op \in CloseOps
             /\ out'.ret = "True"
             /\ out'.n = n]_vars

C12_Witness ==
    /\ pc = "done"
    /\ out.op = "close_account"
    /\ out.ret = "True"
    /\ out.n = MinAccountNumber
    /\ DOMAIN accounts = {MinAccountNumber + 1}
    /\ accounts[MinAccountNumber + 1].name = "Bob"

ListOps == {"list_all_accounts", "on_show"}

\* C13: listing visits every account of the ledger exactly once and nothing
\* else, leaves the ledger as it was, and on an empty ledger says that
\* there are no accounts.
C13_ListVisitsEachOnce ==
    [][(pc' = "done" /\ out'.op \in ListOps)
          => /\ accounts' = accounts
             /\ \A n \in DOMAIN accounts :
                   Cardinality({i \in DOMAIN out'.listed :
                                   out'.listed[i].account_number = n}) = 1
             /\ \A i \in DOMAIN out'.listed :
                   /\ out'.listed[i].account_number \in DOMAIN accounts
                   /\ out'.listed[i]
                         = accounts[out'.listed[i].account_number]
             /\ DOMAIN accounts = {}
                   <=> (out'.console = "no_accounts"
                           \/ out'.dialog = "NoAccounts")]_vars

C13_Witness ==
    /\ pc = "done"
    /\ out.op = "on_show"
    /\ Len(out.listed) = 2
    /\ out.listed[1].account_number = MinAccountNumber + 1

\* C14: while a number of the range is free, _generate_account_number, once
\* called, returns (a fair randint draws a free number in the end), and
\* what it returns is a number of the range that is no key of the ledger.
C14_GenerateReturnsFree ==
    /\ [][(pc = "generate" /\ pc' = "done")
             => /\ out'.n \in AccountNumberRange
                /\ out'.n \notin DOMAIN accounts]_vars
    /\ (pc = "generate" /\ DOMAIN accounts # AccountNumberRange)
          ~> (pc = "done")

C14_Witness ==
    /\ pc = "done"
    /\ out.op = "on_create"
    /\ out.ret = "Account"
    /\ out.n = MinAccountNumber + 1
    /\ DOMAIN accounts = AccountNumberRange

\* C15: when every number of the range is a key of the ledger, a
\* create_account with a deposit that is not negative (it has reached the
\* loop of _generate_account_number) completes, with the ledger as it was.
C15_CreateOnFullRangeCompletes ==
    (pc = "generate" /\ DOMAIN accounts = AccountNumberRange)
       ~> (pc = "done" /\ DOMAIN accounts = AccountNumberRange)

\* C16: a number that close_account removed can be drawn again by a later
\* create_account, and the account then stored under it has the number and
\* exactly the name, type and deposit of that create_account.
C16_ReusedNumberIsFresh ==
    [][(/\ pc = "generate"
        /\ pc' = "done"
        /\ hist \notin {"off", "open"}
        /\ out'.n = MinAccountNumber)
          => /\ MinAccountNumber \notin DOMAIN accounts
             /\ accounts'[MinAccountNumber] =
                   [account_number |-> MinAccountNumber,
                    name |-> pend.name,
                    account_type |-> pend.account_type,
                    balance |-> pend.initial_deposit]]_vars

\* A number closed under one holder is held again, by another holder.
C16_Witness ==
    /\ pc = "done"
    /\ out.op \in CreateOps
    /\ out.ret = "Account"
    /\ out.n = MinAccountNumber
    /\ hist \notin {"off", "open"}
    /\ MinAccountNumber \in DOMAIN accounts
    /\ accounts[MinAccountNumber].name # hist

\* C17: when Account.withdraw has returned False to WithdrawPage.on_withdraw,
\* the dialog says "invalid amount" exactly when withdraw took its final
\* else branch, and "insufficient funds" exactly when it took its
\* 'amount > balance' branch.
C17_FailureKindsAgree ==
    (pc = "done" /\ out.op = "on_withdraw" /\ out.ret = "False")
       => /\ out.dialog = "InvalidWithdrawal"
                <=> out.console = "invalid_withdrawal"
          /\ out.dialog = "InsufficientFunds" <=> out.console = "insufficient"

\* C18: a deposit or a withdrawal on an account of the ledger, successful or
\* not, leaves the key set, every other account, and the number, the name
\* and the type of every account as they were.
C18_DepositWithdrawFrame ==
    [][(pc' = "done" /\ out'.op \in {"on_deposit", "on_withdraw"})
          => /\ DOMAIN accounts' = DOMAIN accounts
             /\ \A n \in DOMAIN accounts :
                   /\ n # out'.n => accounts'[n] = accounts[n]
                   /\ accounts'[n].account_number = accounts[n].account_number
                   /\ accounts'[n].name = accounts[n].name
                   /\ accounts'[n].account_type = accounts[n].account_type]_vars

\* A successful deposit on a 'Checking' account, another account held.
C18_Witness ==
    /\ Deposited
    /\ out.ret = "True"
    /\ accounts[out.n].balance # out.before
    /\ accounts[out.n].account_type = "Checking"
    /\ Cardinality(DOMAIN accounts) = 2

\* The GUI handlers that look an account up by its number.
LookupOps == {"on_deposit", "on_withdraw", "on_check", "on_details",
              "on_close"}

C20_ConfirmedCloseSucceeds ==
    /\ pc = "confirm"
          => /\ pend.caller = "on_close"
             /\ pend.acc_num \in DOMAIN accounts
    /\ (pc = "done" /\ out.op = "on_close" /\ out.ret # "-")
          => /\ out.ret = "True"
             /\ out.dialog = "Closed"
             /\ out.n \notin DOMAIN accounts

\* A confirmed close through the GUI, another account left in the ledger.
C20_Witness ==
    /\ pc = "done"
    /\ out.op = "on_close"
    /\ out.ret = "True"
    /\ out.dialog = "Closed"
    /\ out.n \notin DOMAIN accounts
    /\ DOMAIN accounts # {}

====
